---- MODULE Spec2Model ----
(***************************************************************************)
(* COT-Monitor: the derived-metrics pipeline of src/plotting.py            *)
(* (plot_cftc_data): sort by date, forward fill, net positions, week over  *)
(* week changes, percentile ranks, date-range window, hover texts and      *)
(* change annotations.                                                     *)
(*                                                                         *)
(* Numbers.  A pandas float is held as an integer; the IEEE special values *)
(* are three integers outside the range of the data (NaN, PosInf, NegInf). *)
(* A float that the code rounds to one decimal (.round(1)) is held as an   *)
(* integer number of tenths.  The year-to-date rank, which the code does   *)
(* not round, is held as an exact fraction <<num, den>>, <<0, 0>> for NaN. *)
(* A date is year * 1000 + day of the year.                                *)
(***************************************************************************)
EXTENDS Integers, Sequences, FiniteSets, TLC

VARIABLES
    pc,                 \* position in plot_cftc_data
    raw,                \* the frame plot_cftc_data was called with
    data,               \* the parameter data, as reassigned by lines 19-60
    data_change,        \* data_change with the derived columns (lines 66-105)
    selected_cols,      \* checkbox selection, in display order
    include_market_participation,
    separate_plots,
    default_start_date, \* lines 214-215: the range the slider starts with
    default_end_date,
    selected_start_date,
    selected_end_date,
    plot_rows,          \* positions kept by the date filter (plot_data, plot_data_change)
    plot_data_change,   \* the rows of data_change the date filter keeps
    num_periods,
    hover,              \* the '<col>_hover' columns of plot_data_change
    annotations

vars == <<pc, raw, data, data_change, selected_cols, include_market_participation,
          separate_plots, default_start_date, default_end_date, selected_start_date,
          selected_end_date, plot_rows, plot_data_change, num_periods, hover, annotations>>

----------------------------------------------------------------------------
(* Bounds of the inputs *)

MaxLen == 3         \* records of a short series
MaxDates == 2       \* distinct dates of a series with repeated dates
MaxVal == 2         \* raw values of a short series are 0 .. MaxVal, or missing
Slack == 1          \* long series have W - 1, W or W + Slack records, W a window
MaxLead == 1        \* long series start with no or with MaxLead missing values
MaxTick == 2        \* the user ticks among the first MaxTick checkboxes
EndSlack == 1       \* a short range starts or ends EndSlack dates before the last

----------------------------------------------------------------------------
(* Floats *)

NaN == -999999999
PosInf == 999999998
NegInf == -999999998

isna(x) == x = NaN

IsFinite(x) == x # NaN /\ x # PosInf /\ x # NegInf

\* Series - Series, element by element (NaN propagates)
Sub(a, b) == IF isna(a) \/ isna(b) THEN NaN ELSE a - b

\* num / den rounded to the nearest integer, halves to the even neighbour
\* (numpy's rint, which Series.round and the 'f' format both follow)
RoundHalfEven(num, den) ==
    LET n == IF den < 0 THEN 0 - num ELSE num
        d == IF den < 0 THEN 0 - den ELSE den
        q == n \div d
        r == n % d
    IN  IF 2 * r < d THEN q
        ELSE IF 2 * r > d THEN q + 1
        ELSE IF q % 2 = 0 THEN q ELSE q + 1

\* A fraction <<num, den>>; <<0, 0>> is NaN
NaNFrac == <<0, 0>>

isnaFrac(f) == f[2] = 0

YearOf(date) == date \div 1000

\* pd.to_datetime(f'{current_year}-01-01')
JanFirst(year) == year * 1000 + 1

Range(s) == {s[i] : i \in 1..Len(s)}

Max(S) == CHOOSE x \in S : \A y \in S : y <= x

Min(S) == CHOOSE x \in S : \A y \in S : x <= y

----------------------------------------------------------------------------
(* Columns *)

\* The order the columns of an input frame come in
ColumnOrder ==
    << "producer_merchant_processor_user_longs", "producer_merchant_processor_user_shorts",
       "money_manager_longs", "money_manager_shorts",
       "other_reportable_longs", "other_reportable_shorts",
       "swap_dealer_longs", "swap_dealer_shorts",
       "commercial_longs", "commercial_shorts",
       "non_commercial_longs", "non_commercial_shorts",
       "non_reportable_longs", "non_reportable_shorts",
       "spreading", "open_interest", "market_participation" >>

NetColumns ==
    {"Commercial Net", "Large Speculator Net", "Small Speculator Net",
     "Other Reportables Net", "Swap Dealer Net"}

Columns(d) == Range(d.columns)

NRows(d) == Len(d.date)

\* data[name] = series : a new column goes last, an existing one is overwritten
SetColumn(d, name, series) ==
    [d EXCEPT !.columns = IF name \in Range(@) THEN @ ELSE Append(@, name),
              !.val = (name :> series) @@ @]

\* data[a] - data[b]
Diff2(d, a, b) == [i \in 1..NRows(d) |-> Sub(d.val[a][i], d.val[b][i])]

----------------------------------------------------------------------------
(* Lines 18-26: sort by date, forward fill *)

\* drop_duplicates('date') after the sort: one record of each date is kept
SortValuesDropDuplicates(d) ==
    LET n == NRows(d)
        ord == SortSeq([i \in 1..n |-> i], LAMBDA a, b : d.date[a] < d.date[b])
        keep == SelectSeq([i \in 1..n |-> i],
                          LAMBDA i : i = 1 \/ d.date[ord[i]] # d.date[ord[i - 1]])
    IN  [columns |-> d.columns,
         date |-> [i \in 1..Len(keep) |-> d.date[ord[keep[i]]]],
         val |-> [c \in DOMAIN d.val |-> [i \in 1..Len(keep) |-> d.val[c][ord[keep[i]]]]]]

\* the sort left out: the records stay in the order passed
KeepOrder(d) == d

\* data.sort_values('date')
SortValues(d) ==
    LET n == NRows(d)
        ord == SortSeq([i \in 1..n |-> i], LAMBDA a, b : d.date[a] < d.date[b])
    IN  [columns |-> d.columns,
         date |-> [i \in 1..n |-> d.date[ord[i]]],
         val |-> [c \in DOMAIN d.val |-> [i \in 1..n |-> d.val[c][ord[i]]]]]

\* sort_values sorts with quicksort, which is not stable: records of the same date
\* may come out in any order among themselves.  The frames d can be left as.
TieOrders(d) ==
    LET n == NRows(d)
    IN  IF \A i \in 1..(n - 1) : d.date[i] # d.date[i + 1] THEN {d}
        ELSE {[columns |-> d.columns,
               date |-> d.date,
               val |-> [c \in DOMAIN d.val |-> [i \in 1..n |-> d.val[c][p[i]]]]] :
                 p \in {q \in [1..n -> 1..n] :
                           /\ \A i, j \in 1..n : q[i] = q[j] => i = j
                           /\ \A i \in 1..n : d.date[q[i]] = d.date[i]}}

\* the value a forward fill leaves at position i of series s
RECURSIVE Pad(_, _)
Pad(s, i) ==
    IF ~isna(s[i]) THEN s[i]
    ELSE IF i = 1 THEN NaN
    ELSE Pad(s, i - 1)

\* the value a backward fill leaves at position i of series s
RECURSIVE PadBack(_, _)
PadBack(s, i) ==
    IF ~isna(s[i]) THEN s[i]
    ELSE IF i = Len(s) THEN NaN
    ELSE PadBack(s, i + 1)

\* method='bfill' in place of 'ffill': a gap takes the next value, not the last
FillNaBackward(d) ==
    [d EXCEPT !.val = [c \in DOMAIN d.val |-> [i \in 1..NRows(d) |-> PadBack(d.val[c], i)]]]

\* data.fillna(method='ffill')
FillNa(d) ==
    [d EXCEPT !.val = [c \in DOMAIN d.val |-> [i \in 1..NRows(d) |-> Pad(d.val[c], i)]]]

----------------------------------------------------------------------------
(* Lines 28-60: net position columns *)

Has(d, a, b) == a \in Columns(d) /\ b \in Columns(d)

\* the two branches in the other order: Legacy is looked for first
SchemaLegacyFirst(d) ==
    IF Has(d, "commercial_longs", "commercial_shorts") THEN "Legacy"
    ELSE IF Has(d, "producer_merchant_processor_user_longs",
                   "producer_merchant_processor_user_shorts") THEN "Disaggregated"
    ELSE "Unknown"

\* the branch of the if / elif of lines 30-47 that is taken
Schema(d) ==
    IF Has(d, "producer_merchant_processor_user_longs",
              "producer_merchant_processor_user_shorts") THEN "Disaggregated"
    ELSE IF Has(d, "commercial_longs", "commercial_shorts") THEN "Legacy"
    ELSE "Unknown"

\* if a in data.columns and b in data.columns: data[name] = data[a] - data[b]
NetIf(d, name, a, b) ==
    IF Has(d, a, b) THEN SetColumn(d, name, Diff2(d, a, b)) ELSE d

\* lines 33-44
NetDisaggregated(d) ==
    LET d1 == SetColumn(d, "Commercial Net",
                        Diff2(d, "producer_merchant_processor_user_longs",
                                 "producer_merchant_processor_user_shorts"))
        d2 == NetIf(d1, "Large Speculator Net", "money_manager_longs", "money_manager_shorts")
        d3 == NetIf(d2, "Other Reportables Net", "other_reportable_longs",
                    "other_reportable_shorts")
    IN  NetIf(d3, "Swap Dealer Net", "swap_dealer_longs", "swap_dealer_shorts")

\* lines 49-56
NetLegacy(d) ==
    LET d1 == SetColumn(d, "Commercial Net", Diff2(d, "commercial_longs", "commercial_shorts"))
        d2 == NetIf(d1, "Large Speculator Net", "non_commercial_longs",
                    "non_commercial_shorts")
    IN  NetIf(d2, "Small Speculator Net", "non_reportable_longs", "non_reportable_shorts")

\* spreading taken off every Net column, not only Large Speculator Net
SubtractSpreadingEveryNet(d) ==
    IF "spreading" \in Columns(d)
    THEN [d EXCEPT !.val = [c \in DOMAIN d.val |->
                               IF c \in NetColumns
                               THEN [i \in 1..NRows(d) |->
                                        Sub(d.val[c][i], d.val["spreading"][i])]
                               ELSE d.val[c]]]
    ELSE d

\* lines 58-60
SubtractSpreading(d) ==
    IF Has(d, "spreading", "Large Speculator Net")
    THEN SetColumn(d, "Large Speculator Net", Diff2(d, "Large Speculator Net", "spreading"))
    ELSE d

\* lines 28-60
AddNetColumns(d) ==
    SubtractSpreading(
        IF Schema(d) = "Disaggregated" THEN NetDisaggregated(d)
        ELSE IF Schema(d) = "Legacy" THEN NetLegacy(d)
        ELSE d)

----------------------------------------------------------------------------
(* Lines 62-105: changes and percentile ranks of one column *)

\* program constants: the rolling windows, in weekly records
Window5yr == 260
Window2yr == 104
Window1yr == 52

\* Series.diff()
SeriesDiff(s) == [i \in 1..Len(s) |-> IF i = 1 THEN NaN ELSE Sub(s[i], s[i - 1])]

\* one element of Series.pct_change().multiply(100).round(1), in tenths of a percent:
\* a / b - 1 in IEEE arithmetic (x / 0 is an infinity, 0 / 0 and NaN operands give NaN)
PctChange(a, b) ==
    IF isna(a) \/ isna(b) THEN NaN
    ELSE IF b = 0 THEN (IF a > 0 THEN PosInf ELSE IF a < 0 THEN NegInf ELSE NaN)
    ELSE RoundHalfEven((a - b) * 1000, b)

SeriesPctChange(s) ==
    [i \in 1..Len(s) |-> IF i = 1 THEN NaN ELSE PctChange(s[i], s[i - 1])]

\* rank(method='min') in place of the default: ties take their lowest rank
MinRank2(s, idx, j) == 2 * (Cardinality({k \in idx : s[k] < s[j]}) + 1)

\* rank(ascending=False) in place of the default: the largest value ranks first
DescendingRank2(s, idx, j) ==
    LET above == Cardinality({k \in idx : s[k] > s[j]})
        ties == Cardinality({k \in idx : s[k] = s[j]})
    IN  (above + 1) + (above + ties)

\* Series.rank() of the value at position j among the positions idx of s (none of
\* them NaN), method 'average': the mean of the first and the last ordinal rank the
\* value's ties take in sorted order.  Returned doubled, to stay in the integers.
AverageRank2(s, idx, j) ==
    LET below == Cardinality({k \in idx : s[k] < s[j]})
        ties == Cardinality({k \in idx : s[k] = s[j]})
    IN  (below + 1) + (below + ties)

\* lambda x: pd.Series(x).rank(pct=True).iloc[-1] * 100, then .round(1): tenths.
\* The window is the positions lo..hi and its last element is ranked.
RankLastPct(s, lo, hi) ==
    RoundHalfEven(AverageRank2(s, lo..hi, hi) * 1000, 2 * (hi - lo + 1))

\* the positions a rolling window ending at i covers
RollingWindow(i, window) == (i - window + 1)..i

\* rolling(window, min_periods=1): a window that is not full is ranked as it is
RollingMinPeriods1(s, window) ==
    [i \in 1..Len(s) |->
        LET lo == IF i < window THEN 1 ELSE i - window + 1
        IN  IF \E k \in lo..i : isna(s[k]) THEN NaN
            ELSE RoundHalfEven((2 * Cardinality({k \in lo..i : s[k] < s[i]})
                                + Cardinality({k \in lo..i : s[k] = s[i]}) + 1) * 1000,
                               2 * (i - lo + 1))]

\* Series.rolling(window).apply(...).round(1): min_periods is the window, so a
\* window that is not full or holds a NaN gives NaN
RollingAt(s, window, i) ==
    IF i < window THEN NaN
    ELSE IF \E k \in RollingWindow(i, window) : isna(s[k]) THEN NaN
    ELSE RankLastPct(s, i - window + 1, i)

Rolling(s, window) == [i \in 1..Len(s) |-> RollingAt(s, window, i)]

\* lines 75-91: if len(data) >= window: rolling rank, else: np.nan
PctRolling(s, window) ==
    IF Len(s) >= window THEN Rolling(s, window) ELSE [i \in 1..Len(s) |-> NaN]

\* no reset at the new year: every record is ranked
YtdRowsAllYears(d) == 1..NRows(d)

\* lines 94-96: the positions of ytd_data
YtdRows(d) ==
    LET current_year == YearOf(Max(Range(d.date)))
    IN  {i \in 1..NRows(d) : d.date[i] >= JanFirst(current_year)}

\* an expanding rank: position i is ranked among the year's records up to i
YtdRankSoFar(s, ytd, i) ==
    LET valid == {k \in ytd : k <= i /\ ~isna(s[k])}
    IN  IF isna(s[i]) \/ Cardinality({k \in ytd : k <= i}) < 2 THEN NaNFrac
        ELSE <<50 * (2 * Cardinality({k \in valid : s[k] < s[i]})
                     + Cardinality({k \in valid : s[k] = s[i]}) + 1),
               Cardinality(valid)>>

\* ytd_values.rank(pct=True) * 100 at position i: NaN stays NaN and is not counted
YtdRank(s, ytd, i) ==
    LET valid == {k \in ytd : ~isna(s[k])}
    IN  IF isna(s[i]) THEN NaNFrac
        ELSE <<50 * AverageRank2(s, valid, i), Cardinality(valid)>>

\* lines 98-105
PctYtd(d, s) ==
    LET ytd == YtdRows(d)
    IN  IF ytd # {} /\ Cardinality(ytd) > 1
        THEN [i \in 1..Len(s) |-> IF i \in ytd THEN YtdRank(s, ytd, i) ELSE NaNFrac]
        ELSE [i \in 1..Len(s) |-> NaNFrac]

\* numeric_cols: every column but the date is numeric
NumericCols(d) == DOMAIN d.val

\* lines 66-105: data_change, the derived columns keyed by suffix and column
ChangeAndRank(d) ==
    [change     |-> [c \in NumericCols(d) |-> SeriesDiff(d.val[c])],
     change_pct |-> [c \in NumericCols(d) |-> SeriesPctChange(d.val[c])],
     pct_5yr    |-> [c \in NumericCols(d) |-> PctRolling(d.val[c], Window5yr)],
     pct_2yr    |-> [c \in NumericCols(d) |-> PctRolling(d.val[c], Window2yr)],
     pct_1yr    |-> [c \in NumericCols(d) |-> PctRolling(d.val[c], Window1yr)],
     pct_ytd    |-> [c \in NumericCols(d) |-> PctYtd(d, d.val[c])]]

----------------------------------------------------------------------------
(* Lines 107-234: what the user selects, and the date filter *)

Concat(s, t) == s \o t

\* lines 109-159: the checkboxes in the order shown, net columns first;
\* market_participation has a checkbox of its own
DisplayOrder(d) ==
    Concat(SelectSeq(d.columns, LAMBDA c : c \in NetColumns),
           SelectSeq(d.columns, LAMBDA c : c \notin NetColumns /\ c # "market_participation"))

\* lines 213-215: the range the slider starts with
DefaultPeriods == 89

\* the last 90 periods in place of the last 89
DefaultStartDate90(d) ==
    LET sorted == SortSeq(d.date, LAMBDA a, b : a < b)
        first == SelectSeq([k \in 1..Len(sorted) |-> k],
                           LAMBDA k : k = 1 \/ sorted[k] # sorted[k - 1])
        all_dates == [k \in 1..Len(first) |-> sorted[first[k]]]
        n == Len(all_dates)
    IN  IF n > 1 THEN all_dates[n + 1 - Min({DefaultPeriods + 1, n})] ELSE Min(Range(d.date))

DefaultStartDate(d) ==
    LET sorted == SortSeq(d.date, LAMBDA a, b : a < b)
        first == SelectSeq([k \in 1..Len(sorted) |-> k],
                           LAMBDA k : k = 1 \/ sorted[k] # sorted[k - 1])
        all_dates == [k \in 1..Len(first) |-> sorted[first[k]]]
        n == Len(all_dates)
    IN  IF n > 1 THEN all_dates[n + 1 - Min({DefaultPeriods, n})] ELSE Min(Range(d.date))

DefaultEndDate(d) == Max(Range(d.date))

\* lines 229-231: the positions whose date is in the selected range, in order
DateFilter(d, start, end) ==
    SelectSeq([i \in 1..NRows(d) |-> i], LAMBDA i : d.date[i] >= start /\ d.date[i] <= end)

\* the elements of seq at the positions rows
Take(seq, rows) == [k \in 1..Len(rows) |-> seq[rows[k]]]

\* the rows of the frame d
TakeRows(d, rows) ==
    [columns |-> d.columns, date |-> Take(d.date, rows),
     val |-> [c \in DOMAIN d.val |-> Take(d.val[c], rows)]]

\* the changes and ranks computed again, on the rows kept only
PlotDataChangeRecomputed(d, dc, rows) ==
    LET f == TakeRows(d, rows)
    IN  [date |-> f.date, val |-> f.val] @@ ChangeAndRank(f)

\* lines 232-233: data_change[mask], the rows kept with every column they have
PlotDataChange(d, dc, rows) ==
    [date |-> Take(d.date, rows),
     val |-> [c \in DOMAIN d.val |-> Take(d.val[c], rows)]]
    @@ [f \in DOMAIN dc |-> [c \in DOMAIN dc[f] |-> Take(dc[f][c], rows)]]

----------------------------------------------------------------------------
(* Lines 277-299: create_hover_text *)

Pad2(n) == IF n < 10 THEN "0" \o ToString(n) ELSE ToString(n)

Pad3(n) == IF n < 100 THEN "0" \o Pad2(n) ELSE ToString(n)

IsLeap(y) == y % 4 = 0 /\ (y % 100 # 0 \/ y % 400 = 0)

MonthEnds(y) ==
    IF IsLeap(y) THEN <<31, 60, 91, 121, 152, 182, 213, 244, 274, 305, 335, 366>>
    ELSE <<31, 59, 90, 120, 151, 181, 212, 243, 273, 304, 334, 365>>

\* strftime('%Y-%m-%d')
DateStr(date) ==
    LET y == YearOf(date)
        doy == date % 1000
        ends == MonthEnds(y)
        m == CHOOSE k \in 1..12 : doy <= ends[k] /\ (k = 1 \/ doy > ends[k - 1])
        day == IF m = 1 THEN doy ELSE doy - ends[m - 1]
    IN  ToString(y) \o "-" \o Pad2(m) \o "-" \o Pad2(day)

\* the digits of n >= 0 with thousands separators
RECURSIVE Grouped(_)
Grouped(n) ==
    IF n < 1000 THEN ToString(n) ELSE Grouped(n \div 1000) \o "," \o Pad3(n % 1000)

\* the 'f' format of a special value
SpecialStr(x, plus) ==
    IF x = NegInf THEN "-inf"
    ELSE (IF plus THEN "+" ELSE "") \o (IF x = PosInf THEN "inf" ELSE "nan")

\* f"{x:,.0f}" and f"{x:+,.0f}" of a whole number
Fmt0(x, plus) ==
    IF ~IsFinite(x) THEN SpecialStr(x, plus)
    ELSE IF x < 0 THEN "-" \o Grouped(0 - x)
    ELSE (IF plus THEN "+" ELSE "") \o Grouped(x)

\* f"{x:.1f}" and f"{x:+.1f}" of a number of tenths
Fmt1(t, plus) ==
    IF ~IsFinite(t) THEN SpecialStr(t, plus)
    ELSE IF t < 0 THEN "-" \o ToString((0 - t) \div 10) \o "." \o ToString((0 - t) % 10)
    ELSE (IF plus THEN "+" ELSE "") \o ToString(t \div 10) \o "." \o ToString(t % 10)

\* A formatted text is held as the sequence of its pieces, the literal parts of the
\* f-string and the formatted values, in order; the text is their concatenation.

\* lines 283-285
ChangeStr(change, change_pct) ==
    IF ~isna(change)
    THEN <<"Change: ", Fmt0(change, TRUE), " (", Fmt1(change_pct, TRUE), "%)">>
    ELSE <<"Change: N/A">>

\* lines 294-296: a rolling rank, in tenths
PctStr(label, pct) ==
    IF ~isna(pct) THEN <<label \o " Percentile: ", Fmt1(pct, FALSE), "%">>
    ELSE <<label \o " Percentile: N/A">>

\* line 293: the year-to-date rank, a fraction the format rounds to one decimal
PctYtdStr(pct_ytd) ==
    IF ~isnaFrac(pct_ytd)
    THEN <<"YTD Percentile: ", Fmt1(RoundHalfEven(pct_ytd[1] * 10, pct_ytd[2]), FALSE), "%">>
    ELSE <<"YTD Percentile: N/A">>

\* lines 278-299: the hover text of row i and column col, as its lines (the parts
\* that line 298 joins with <br>)
create_hover_text(d, dc, i, col) ==
    [date    |-> <<"<b>", DateStr(d.date[i]), "</b>">>,
     value   |-> <<col \o ": ", Fmt0(d.val[col][i], FALSE)>>,
     change  |-> ChangeStr(dc.change[col][i], dc.change_pct[col][i]),
     pct_ytd |-> PctYtdStr(dc.pct_ytd[col][i]),
     pct_1yr |-> PctStr("1Y", dc.pct_1yr[col][i]),
     pct_2yr |-> PctStr("2Y", dc.pct_2yr[col][i]),
     pct_5yr |-> PctStr("5Y", dc.pct_5yr[col][i])]

\* lines 302-305: plot_data_change.apply(create_hover_text, axis=1)
HoverColumn(d, dc, rows, col) ==
    [k \in 1..Len(rows) |-> create_hover_text(d, dc, rows[k], col)]

----------------------------------------------------------------------------
(* Lines 307-355: annotations *)

\* line 311
AnnotationLimit == 90

\* lines 323-340: the annotation of one point
PointAnnotation(date, value, change_pct, sel, col, separate) ==
    LET base == [x |-> date, y |-> value,
                 text |-> <<Fmt1(change_pct, TRUE), "%">>,
                 showarrow |-> FALSE,
                 font |-> [size |-> 12, color |-> IF change_pct > 0 THEN "green" ELSE "red"],
                 xanchor |-> "center", yanchor |-> "bottom"]
        subplot_idx == CHOOSE k \in 1..Len(sel) : sel[k] = col
    IN  IF separate
        THEN [xref |-> IF subplot_idx > 1 THEN "x" \o ToString(subplot_idx) ELSE "x",
              yref |-> IF subplot_idx > 1 THEN "y" \o ToString(subplot_idx) ELSE "y"] @@ base
        ELSE base

\* lines 345-354: x = y = 0.5 in paper coordinates
Explanation ==
    [x |-> "0.5", y |-> "0.5", xref |-> "paper", yref |-> "paper",
     text |-> <<"Change percentages only available for 90 or fewer periods">>,
     showarrow |-> FALSE, font |-> [size |-> 14], visible |-> FALSE]

\* lines 313-342: the annotations of column col, one for each row of the window
\* whose change_pct is not NaN
ColumnAnnotations(d, dc, rows, sel, col, separate) ==
    LET shown == SelectSeq(rows, LAMBDA i : ~isna(dc.change_pct[col][i]))
    IN  [k \in 1..Len(shown) |->
            PointAnnotation(d.date[shown[k]], d.val[col][shown[k]],
                            dc.change_pct[col][shown[k]], sel, col, separate)]

\* line 312: for col in selected_cols, from the c-th on
RECURSIVE AllAnnotations(_, _, _, _, _, _)
AllAnnotations(d, dc, rows, sel, c, separate) ==
    IF c > Len(sel) THEN <<>>
    ELSE ColumnAnnotations(d, dc, rows, sel, sel[c], separate)
         \o AllAnnotations(d, dc, rows, sel, c + 1, separate)

\* the gate one period short: < 90 where the code has <= 90
MakeAnnotationsBelowLimit(d, dc, rows, sel, separate) ==
    IF Len(rows) < AnnotationLimit
    THEN AllAnnotations(d, dc, rows, sel, 1, separate)
    ELSE <<Explanation>>

\* lines 308-355
MakeAnnotations(d, dc, rows, sel, separate) ==
    IF Len(rows) <= AnnotationLimit
    THEN AllAnnotations(d, dc, rows, sel, 1, separate)
    ELSE <<Explanation>>

----------------------------------------------------------------------------
(* The frames plot_cftc_data is called with *)

Frame(columns, date, val) == [columns |-> columns, date |-> date, val |-> val]

RECURSIVE Ascending(_)
Ascending(S) == IF S = {} THEN <<>> ELSE <<Min(S)>> \o Ascending(S \ {Min(S)})

Reverse(s) == [i \in 1..Len(s) |-> s[Len(s) + 1 - i]]

Vals == 0..MaxVal

\* Short series: weekly report dates either side of a new year, two in 1999
PoolDate(k) == IF k <= 2 THEN 1999351 + 7 * k ELSE 2000000 + 7 * (k - 2)

\* the records of the pool dates D, open_interest valued v in the order passed,
\* which is ascending or descending by date
ShortFrame(D, desc, v) ==
    LET n == Cardinality(D)
        ks == IF desc THEN Reverse(Ascending(D)) ELSE Ascending(D)
    IN  Frame(<<"open_interest", "market_participation">>,
              [i \in 1..n |-> PoolDate(ks[i])],
              [c \in {"open_interest", "market_participation"} |->
                  [i \in 1..n |-> IF c = "open_interest" THEN v[i] ELSE ks[i]]])

\* Series with repeated dates: the i-th record passed is dated PoolDate(ks[i]) and
\* numbered i in market_participation; with holes, open_interest misses every second value
DatesFrame(ks, holes) ==
    Frame(<<"open_interest", "market_participation">>,
          [i \in 1..Len(ks) |-> PoolDate(ks[i])],
          [c \in {"open_interest", "market_participation"} |->
              [i \in 1..Len(ks) |-> IF c = "open_interest" /\ holes /\ i % 2 = 0 THEN NaN
                                      ELSE i]])

\* Long series: n weekly records from the first week of 2000, 52 a year
WeekDate(i) == (2000 + (i - 1) \div 52) * 1000 + 7 * ((i - 1) % 52) + 3

\* the shapes of a long series: falling, rising, constant zero, alternating
Kinds == {"falling", "rising", "constant", "alternating"}

Pattern(kind, i) ==
    CASE kind = "falling" -> 1000 - i
      [] kind = "rising" -> i
      [] kind = "constant" -> 0
      [] kind = "alternating" -> i % 2

\* open_interest follows the pattern after lead missing values; spreading, which no
\* schema uses on its own, runs against it
LongFrame(n, kind, lead) ==
    Frame(<<"spreading", "open_interest">>,
          [i \in 1..n |-> WeekDate(i)],
          [c \in {"spreading", "open_interest"} |->
              [i \in 1..n |-> IF c = "open_interest"
                              THEN (IF i <= lead THEN NaN ELSE Pattern(kind, i))
                              ELSE (n - i) % 3]])

\* the lengths of the long series: a single record, and one short of, at and past
\* each rolling window and the default range
LongLens ==
    {w + k : w \in {Window5yr, Window2yr, DefaultPeriods, Window1yr}, k \in {0 - 1, 0, Slack}}
    \cup {1}

\* Schema frames: two records; the second is long 100, short 40, spreading 30, the
\* first long L, short S, spreading P; each category shifts its longs or its shorts
CategoryShift(c) ==
    CASE c = "producer_merchant_processor_user_longs" -> 1
      [] c = "commercial_longs" -> 5
      [] c = "other_reportable_shorts" -> 2
      [] c = "swap_dealer_longs" -> 3
      [] c = "non_reportable_shorts" -> 4
      [] OTHER -> 0

IsLongs(c) ==
    c \in {"producer_merchant_processor_user_longs", "money_manager_longs",
           "other_reportable_longs", "swap_dealer_longs", "commercial_longs",
           "non_commercial_longs", "non_reportable_longs"}

Shifted(x, c) == IF isna(x) THEN NaN ELSE x + CategoryShift(c)

SchemaFrame(cols, L, S, P) ==
    Frame(SelectSeq(ColumnOrder, LAMBDA c : c \in cols),
          <<PoolDate(3), PoolDate(4)>>,
          [c \in cols |->
              IF c = "spreading" THEN <<P, 30>>
              ELSE IF IsLongs(c) THEN <<Shifted(L, c), Shifted(100, c)>>
              ELSE <<Shifted(S, c), Shifted(40, c)>>])

\* the column sets: each of the two primary pairs whole, halved or absent, the other
\* categories and spreading present or absent
PairChoices(longs, shorts) == {{}, {longs}, {shorts}, {longs, shorts}}

OtherCategories ==
    {"money_manager_longs", "money_manager_shorts", "other_reportable_longs",
     "other_reportable_shorts", "swap_dealer_longs", "swap_dealer_shorts",
     "non_commercial_longs", "non_commercial_shorts", "non_reportable_longs",
     "non_reportable_shorts"}

ColumnSets ==
    { p \cup q \cup o \cup sp :
        p \in PairChoices("producer_merchant_processor_user_longs",
                          "producer_merchant_processor_user_shorts"),
        q \in PairChoices("commercial_longs", "commercial_shorts"),
        o \in {{}, OtherCategories},
        sp \in {{}, {"spreading"}} }

----------------------------------------------------------------------------
(* The state machine: one call of plot_cftc_data *)

Blank ==
    /\ pc = "start"
    /\ raw = data
    /\ data_change = <<>>
    /\ selected_cols = <<>>
    /\ include_market_participation = FALSE
    /\ separate_plots = FALSE
    /\ default_start_date = 0
    /\ default_end_date = 0
    /\ selected_start_date = 0
    /\ selected_end_date = 0
    /\ plot_rows = <<>>
    /\ plot_data_change = <<>>
    /\ num_periods = 0
    /\ hover = <<>>
    /\ annotations = <<>>

Init ==
    /\ \E D \in SUBSET (1..(MaxLen + 1)) :
          /\ Cardinality(D) >= 1
          /\ Cardinality(D) <= MaxLen
          /\ \E desc \in BOOLEAN, v \in [1..Cardinality(D) -> Vals \cup {NaN}] :
                data = ShortFrame(D, desc, v)
    /\ Blank

InitDates ==
    /\ \E n \in 1..MaxLen : \E ks \in [1..n -> 1..MaxDates], holes \in BOOLEAN :
          data = DatesFrame(ks, holes)
    /\ Blank

InitSchema ==
    /\ \E cols \in ColumnSets, L \in {40, 100}, S \in {40, NaN}, P \in {0, 30, NaN} :
          data = SchemaFrame(cols, L, S, P)
    /\ Blank

InitHistory ==
    /\ \E n \in LongLens, kind \in Kinds, lead \in {0, MaxLead} :
          data = LongFrame(n, kind, lead)
    /\ Blank

\* line 19
SortByDate ==
    /\ pc = "start"
    /\ data' \in TieOrders(SortValues(data))
    /\ pc' = "sorted"
    /\ UNCHANGED <<raw, data_change, selected_cols, include_market_participation,
                   separate_plots, default_start_date, default_end_date,
                   selected_start_date, selected_end_date, plot_rows, plot_data_change,
                   num_periods, hover, annotations>>

\* line 26
FillForward ==
    /\ pc = "sorted"
    /\ data' = FillNa(data)
    /\ pc' = "filled"
    /\ UNCHANGED <<raw, data_change, selected_cols, include_market_participation,
                   separate_plots, default_start_date, default_end_date,
                   selected_start_date, selected_end_date, plot_rows, plot_data_change,
                   num_periods, hover, annotations>>

\* lines 28-60
DeriveNet ==
    /\ pc = "filled"
    /\ data' = AddNetColumns(data)
    /\ pc' = "net"
    /\ UNCHANGED <<raw, data_change, selected_cols, include_market_participation,
                   separate_plots, default_start_date, default_end_date,
                   selected_start_date, selected_end_date, plot_rows, plot_data_change,
                   num_periods, hover, annotations>>

\* lines 62-105
ComputeChanges ==
    /\ pc = "net"
    /\ data_change' = ChangeAndRank(data)
    /\ pc' = "enriched"
    /\ UNCHANGED <<raw, data, selected_cols, include_market_participation, separate_plots,
                   default_start_date, default_end_date, selected_start_date,
                   selected_end_date, plot_rows, plot_data_change, num_periods, hover,
                   annotations>>

\* the checkboxes the user may tick
Tickable(d) == {DisplayOrder(d)[k] : k \in 1..Min({MaxTick, Len(DisplayOrder(d))})}

\* lines 191-193: nothing is ticked, the function returns
NothingSelected ==
    /\ pc = "enriched"
    /\ pc' = "returned"
    /\ UNCHANGED <<raw, data, data_change, selected_cols, include_market_participation,
                   separate_plots, default_start_date, default_end_date,
                   selected_start_date, selected_end_date, plot_rows, plot_data_change,
                   num_periods, hover, annotations>>

\* lines 121-189: the ticked columns in display order, and the checkbox of
\* market_participation, there only when the column is
SelectColumns ==
    /\ pc = "enriched"
    /\ \E ticked \in SUBSET Tickable(data),
          imp \in IF "market_participation" \in Columns(data) THEN BOOLEAN ELSE {FALSE} :
          /\ ticked # {} \/ imp
          /\ selected_cols' = SelectSeq(DisplayOrder(data), LAMBDA c : c \in ticked)
          /\ include_market_participation' = imp
    /\ pc' = "selected"
    /\ UNCHANGED <<raw, data, data_change, separate_plots, default_start_date,
                   default_end_date, selected_start_date, selected_end_date, plot_rows,
                   plot_data_change, num_periods, hover, annotations>>

\* the ranges the user may set the slider to: the default, those between the last
\* date and the one EndSlack before it, and those that hold about AnnotationLimit
\* records up to the last date
SliderRanges(d) ==
    LET n == NRows(d)
        last == {e \in {n - EndSlack, n} : e >= 1}
        about == {k \in (AnnotationLimit - 1)..(AnnotationLimit + 1) : k <= n}
    IN  {<<DefaultStartDate(d), DefaultEndDate(d)>>}
        \cup {<<d.date[r[1]], d.date[r[2]]>> : r \in {r0 \in last \X last : r0[1] <= r0[2]}}
        \cup {<<d.date[n - k + 1], d.date[n]>> : k \in about}

\* lines 202-226
SelectDateRange ==
    /\ pc = "selected"
    /\ default_start_date' = DefaultStartDate(data)
    /\ default_end_date' = DefaultEndDate(data)
    /\ \E r \in SliderRanges(data), sep \in BOOLEAN :
          /\ selected_start_date' = r[1]
          /\ selected_end_date' = r[2]
          /\ separate_plots' = sep
    /\ pc' = "ranged"
    /\ UNCHANGED <<raw, data, data_change, selected_cols, include_market_participation,
                   plot_rows, plot_data_change, num_periods, hover, annotations>>

\* lines 229-234
FilterDates ==
    /\ pc = "ranged"
    /\ plot_rows' = DateFilter(data, selected_start_date, selected_end_date)
    /\ plot_data_change' = PlotDataChange(data, data_change, plot_rows')
    /\ num_periods' = Len(plot_rows')
    /\ pc' = "windowed"
    /\ UNCHANGED <<raw, data, data_change, selected_cols, include_market_participation,
                   separate_plots, default_start_date, default_end_date,
                   selected_start_date, selected_end_date, hover, annotations>>

\* lines 302-305
CreateHoverTexts ==
    /\ pc = "windowed"
    /\ hover' = [c \in Range(selected_cols) |-> HoverColumn(data, data_change, plot_rows, c)]
    /\ pc' = "hovered"
    /\ UNCHANGED <<raw, data, data_change, selected_cols, include_market_participation,
                   separate_plots, default_start_date, default_end_date,
                   selected_start_date, selected_end_date, plot_rows, plot_data_change,
                   num_periods, annotations>>

\* lines 308-355
CreateAnnotations ==
    /\ pc = "hovered"
    /\ annotations' = MakeAnnotations(data, data_change, plot_rows, selected_cols,
                                      separate_plots)
    /\ pc' = "annotated"
    /\ UNCHANGED <<raw, data, data_change, selected_cols, include_market_participation,
                   separate_plots, default_start_date, default_end_date,
                   selected_start_date, selected_end_date, plot_rows, plot_data_change,
                   num_periods, hover>>

\* lines 357-496: the figure; a single plot with market participation adds its hover
PlotFigure ==
    /\ pc = "annotated"
    /\ hover' = IF ~separate_plots /\ include_market_participation
                   /\ "market_participation" \in Columns(data)
                THEN ("market_participation" :>
                        HoverColumn(data, data_change, plot_rows, "market_participation"))
                     @@ hover
                ELSE hover
    /\ pc' = "done"
    /\ UNCHANGED <<raw, data, data_change, selected_cols, include_market_participation,
                   separate_plots, default_start_date, default_end_date,
                   selected_start_date, selected_end_date, plot_rows, plot_data_change,
                   num_periods, annotations>>

Next ==
    \/ SortByDate
    \/ FillForward
    \/ DeriveNet
    \/ ComputeChanges
    \/ NothingSelected
    \/ SelectColumns
    \/ SelectDateRange
    \/ FilterDates
    \/ CreateHoverTexts
    \/ CreateAnnotations
    \/ PlotFigure

Spec == Init /\ [][Next]_vars

SpecDates == InitDates /\ [][Next]_vars

SpecSchema == InitSchema /\ [][Next]_vars

SpecHistory == InitHistory /\ [][Next]_vars

----------------------------------------------------------------------------
(* The claims *)

Abs(x) == IF x < 0 THEN 0 - x ELSE x

\* t is num / den rounded to a nearest integer (den > 0)
IsRounded(t, num, den) == 2 * Abs(t * den - num) <= den

\* the rolling rank column of a window size
RollingField(w) ==
    CASE w = 260 -> data_change.pct_5yr
      [] w = 104 -> data_change.pct_2yr
      [] w = 52 -> data_change.pct_1yr

\* twice the average rank of v[i] among the positions S of v: the values below it
\* count twice, its ties (itself included) once, plus one
MidRank2(v, S, i) ==
    2 * Cardinality({k \in S : v[k] < v[i]}) + Cardinality({k \in S : v[k] = v[i]}) + 1

\* the rolling rank at i over the w records i-w+1 .. i, in tenths of a percent
IsRollingRank(t, v, w, i) ==
    /\ ~isna(t)
    /\ IsRounded(t, 1000 * MidRank2(v, (i - w + 1)..i, i), 2 * w)

\* C1 as stated: for every numeric column, window W of 260, 104, 52 and index i
\* with at least W records ending at i (whose own value is there), the rolling
\* rank at i is the percentage rank of value[i] among the W trailing values,
\* ties by average rank, rounded to 1 decimal.
C1_RankWheneverWRecords ==
    pc = "enriched" =>
        \A c \in NumericCols(data), w \in {260, 104, 52} :
            \A i \in w..NRows(data) :
                ~isna(data.val[c][i]) =>
                    /\ ~isna(RollingField(w)[c][i])
                    /\ LET S == {k \in (i - w + 1)..i : ~isna(data.val[c][k])}
                       IN  IsRounded(RollingField(w)[c][i],
                                     1000 * MidRank2(data.val[c], S, i), 2 * w)

\* C1 amended: for every numeric column, window W and index i with at least W
\* records ending at i, if none of the W trailing values i-W+1 .. i is missing the
\* rolling rank at i is the percentage rank of value[i] among exactly those W
\* values, ties by average rank, rounded to 1 decimal; if one is missing the rank
\* is undefined.
C1_RankOfFullWindow ==
    pc = "enriched" =>
        \A c \in NumericCols(data), w \in {260, 104, 52} :
            \A i \in w..NRows(data) :
                IF \A k \in (i - w + 1)..i : ~isna(data.val[c][k])
                THEN IsRollingRank(RollingField(w)[c][i], data.val[c], w, i)
                ELSE isna(RollingField(w)[c][i])

\* a 260-record window without a missing value in which value[i] has a tie and a
\* smaller value, ranked
C1_Witness ==
    /\ pc = "enriched"
    /\ \E c \in NumericCols(data) : \E i \in 260..NRows(data) :
          /\ \A k \in (i - 259)..i : ~isna(data.val[c][k])
          /\ \E k \in (i - 259)..(i - 1) : data.val[c][k] = data.val[c][i]
          /\ \E k \in (i - 259)..(i - 1) : data.val[c][k] < data.val[c][i]
          /\ ~isna(data_change.pct_5yr[c][i])

\* C2: in a column without a missing value, the 5-year rank is undefined at
\* every index below 259 and defined from 259 on (0-indexed), the 2-year rank
\* likewise at 103 and the 1-year rank at 51; where the window is not yet
\* full the rank is undefined, whatever the length of the series.
C2_DefinedFromFullWindow ==
    pc = "enriched" =>
        \A c \in NumericCols(data) :
            (\A k \in 1..NRows(data) : ~isna(data.val[c][k])) =>
                \A i \in 0..(NRows(data) - 1) :
                    /\ isna(data_change.pct_5yr[c][i + 1]) <=> i < 259
                    /\ isna(data_change.pct_2yr[c][i + 1]) <=> i < 103
                    /\ isna(data_change.pct_1yr[c][i + 1]) <=> i < 51

\* a series of more than 260 records without a missing value: the 5-year rank is
\* undefined at index 258 and defined at index 259
C2_Witness ==
    /\ pc = "enriched"
    /\ NRows(data) > 260
    /\ \E c \in NumericCols(data) :
          /\ \A k \in 1..NRows(data) : ~isna(data.val[c][k])
          /\ isna(data_change.pct_5yr[c][259])
          /\ ~isna(data_change.pct_5yr[c][260])

\* the year-to-date rank column
Ytd(c) == data_change.pct_ytd[c]

\* the records up to i that are dated in the calendar year of record i
YearToDate(i) == {k \in 1..i : YearOf(data.date[k]) = YearOf(data.date[i])}

\* the records dated in the calendar year of the latest record
LatestYear == {k \in 1..NRows(data) :
                  YearOf(data.date[k]) = Max({YearOf(data.date[j]) : j \in 1..NRows(data)})}

Present(v, S) == {k \in S : ~isna(v[k])}

\* the fraction f is the percentage rank of v[i] among the positions S of v
IsPctRank(f, v, S, i) ==
    /\ ~isnaFrac(f)
    /\ f[1] * 2 * Cardinality(S) = 100 * MidRank2(v, S, i) * f[2]

\* C3 as stated: the year-to-date rank at i is the percentage rank of value[i]
\* among the records from Jan 1 of record i's year up to and including i, and it
\* is undefined when fewer than 2 records exist so far in that year.
C3_RankAmongYearToDate ==
    pc = "enriched" =>
        \A c \in NumericCols(data), i \in 1..NRows(data) :
            IF Cardinality(YearToDate(i)) < 2 THEN isnaFrac(Ytd(c)[i])
            ELSE ~isna(data.val[c][i]) =>
                    IsPctRank(Ytd(c)[i], data.val[c], Present(data.val[c], YearToDate(i)), i)

\* C3 amended: the year-to-date rank at i is the percentage rank (ties by average
\* rank, not rounded) of value[i] among all the records with a value that are dated
\* in the calendar year of the latest record of the series, those dated after i
\* included; it is undefined at a record of an earlier year, at a record without
\* a value, and everywhere when that year holds fewer than 2 records.
C3_RankAmongLatestYear ==
    pc = "enriched" =>
        \A c \in NumericCols(data), i \in 1..NRows(data) :
            IF Cardinality(LatestYear) >= 2 /\ i \in LatestYear /\ ~isna(data.val[c][i])
            THEN IsPctRank(Ytd(c)[i], data.val[c], Present(data.val[c], LatestYear), i)
            ELSE isnaFrac(Ytd(c)[i])

\* the first record of the latest year is ranked, and below 100 because of a
\* smaller value dated after it
C3_Witness ==
    /\ pc = "enriched"
    /\ \E c \in NumericCols(data) : \E i \in LatestYear :
          /\ YearToDate(i) = {i}
          /\ \E k \in LatestYear : k > i /\ data.val[c][k] > data.val[c][i]
                                   /\ ~isna(data.val[c][i])
          /\ ~isnaFrac(Ytd(c)[i])
          /\ Ytd(c)[i][1] < 100 * Ytd(c)[i][2]

\* C4 as stated: in every calendar year of the series, not only the latest, the
\* year-to-date rank of a record is defined once its year holds at least 2 records.
C4_DefinedInEveryYear ==
    pc = "enriched" =>
        \A c \in NumericCols(data), i \in 1..NRows(data) :
            (Cardinality(YearToDate(i)) >= 2 /\ ~isna(data.val[c][i])) => ~isnaFrac(Ytd(c)[i])

\* the frame cut down to its rows from lo on
RowsFrom(d, lo) ==
    [columns |-> d.columns,
     date |-> SubSeq(d.date, lo, NRows(d)),
     val |-> [c \in DOMAIN d.val |-> SubSeq(d.val[c], lo, NRows(d))]]

\* C4 amended: the year-to-date rank is computed for the latest calendar year of
\* the series only.  Every record of an earlier year has it undefined; a record of
\* the latest year has the rank the records of that year alone give (no value of
\* another year counts), defined once that year holds at least 2 records, for
\* every record of the year that has a value.
C4_OnlyLatestYearRanked ==
    pc = "enriched" =>
        LET lo == NRows(data) - Cardinality(LatestYear) + 1
            cut == RowsFrom(data, lo)
        IN  \A c \in NumericCols(data), i \in 1..NRows(data) :
              /\ i < lo => isnaFrac(Ytd(c)[i])
              /\ i >= lo => Ytd(c)[i] = PctYtd(cut, cut.val[c])[i - lo + 1]
              /\ (i >= lo /\ Cardinality(LatestYear) >= 2 /\ ~isna(data.val[c][i]))
                    => ~isnaFrac(Ytd(c)[i])

\* a series of two years: the latest year's records are ranked, and a record of
\* the year before holds a value that would rank among them
C4_Witness ==
    /\ pc = "enriched"
    /\ \E c \in NumericCols(data) : \E i \in LatestYear : \E k \in 1..NRows(data) :
          /\ k \notin LatestYear
          /\ ~isna(data.val[c][k])
          /\ data.val[c][k] < data.val[c][i]
          /\ ~isnaFrac(Ytd(c)[i])
          /\ isnaFrac(Ytd(c)[k])

\* C5: change_pct at i is undefined when i is the first record or the previous
\* value is missing or 0, never infinite; otherwise it is
\* (value[i] / value[i-1] - 1) * 100 rounded to 1 decimal.
C5_ChangePctUndefinedOrExact ==
    pc = "enriched" =>
        \A c \in NumericCols(data), i \in 1..NRows(data) :
            LET t == data_change.change_pct[c][i]
                v == data.val[c]
            IN  IF i = 1 \/ isna(v[i - 1]) \/ v[i - 1] = 0 THEN isna(t)
                ELSE ~isna(v[i]) =>
                        /\ IsFinite(t)
                        /\ 2 * Abs(t * v[i - 1] - (v[i] - v[i - 1]) * 1000) <= Abs(v[i - 1])

\* the records of frame b are those of frame a, each with its own values
SameRecords(a, b) ==
    /\ NRows(a) = NRows(b)
    /\ \A i \in 1..NRows(a) : \E j \in 1..NRows(b) :
          /\ b.date[j] = a.date[i]
          /\ \A c \in DOMAIN a.val : b.val[c][j] = a.val[c][i]

\* C6: once the changes are computed the records are those passed in, in ascending
\* date order, and for every column change is undefined at the first record and
\* at i > 0 with both values there it is value[i] - value[i-1], unrounded.  (The
\* column market_participation is never missing, so forward fill leaves every
\* record of it as passed.)
C6_ChangeIsDifference ==
    pc = "enriched" =>
        /\ \A i \in 2..NRows(data) : data.date[i - 1] < data.date[i]
        /\ SameRecords([raw EXCEPT !.val = [c \in {"market_participation"} |-> @[c]]],
                       [data EXCEPT !.val = [c \in {"market_participation"} |-> @[c]]])
        /\ \A c \in NumericCols(data) :
              /\ isna(data_change.change[c][1])
              /\ \A i \in 2..NRows(data) :
                    (~isna(data.val[c][i]) /\ ~isna(data.val[c][i - 1]))
                        => data_change.change[c][i] = data.val[c][i] - data.val[c][i - 1]

\* a series passed in descending date order whose value rises from the first
\* record by date to the second
C6_Witness ==
    /\ pc = "enriched"
    /\ NRows(raw) >= 2
    /\ raw.date[1] > raw.date[2]
    /\ data_change.change["open_interest"][2] > 0
    /\ ~isna(data_change.change["open_interest"][2])

----------------------------------------------------------------------------
(* C10: the hover text *)

Specials == {"nan", "+nan", "inf", "+inf", "-inf"}

NotAvailable ==
    {"N/A", "Change: N/A", "YTD Percentile: N/A", "1Y Percentile: N/A",
     "2Y Percentile: N/A", "5Y Percentile: N/A"}

\* the line shows the marker and no formatted special value
ShowsNA(line) ==
    /\ \E j \in 1..Len(line) : line[j] \in NotAvailable
    /\ \A j \in 1..Len(line) : line[j] \notin Specials

\* C10: in every hover text each derived field that is undefined is shown as N/A,
\* whatever the other fields are, and never as a formatted not-a-number.
C10_UndefinedShownAsNA ==
    pc \in {"hovered", "annotated", "done"} =>
        \A c \in DOMAIN hover : \A k \in 1..Len(plot_rows) :
            LET i == plot_rows[k]
                h == hover[c][k]
            IN  /\ isna(data_change.change[c][i]) => ShowsNA(h.change)
                /\ isna(data_change.change_pct[c][i]) => ShowsNA(h.change)
                /\ isnaFrac(data_change.pct_ytd[c][i]) => ShowsNA(h.pct_ytd)
                /\ isna(data_change.pct_1yr[c][i]) => ShowsNA(h.pct_1yr)
                /\ isna(data_change.pct_2yr[c][i]) => ShowsNA(h.pct_2yr)
                /\ isna(data_change.pct_5yr[c][i]) => ShowsNA(h.pct_5yr)

----------------------------------------------------------------------------
(* C7, C8: the net position columns *)

\* the Net columns of a schema: <<name, longs field, shorts field>>
NetSources(schema) ==
    IF schema = "Disaggregated"
    THEN {<<"Commercial Net", "producer_merchant_processor_user_longs",
            "producer_merchant_processor_user_shorts">>,
          <<"Large Speculator Net", "money_manager_longs", "money_manager_shorts">>,
          <<"Other Reportables Net", "other_reportable_longs", "other_reportable_shorts">>,
          <<"Swap Dealer Net", "swap_dealer_longs", "swap_dealer_shorts">>}
    ELSE IF schema = "Legacy"
    THEN {<<"Commercial Net", "commercial_longs", "commercial_shorts">>,
          <<"Large Speculator Net", "non_commercial_longs", "non_commercial_shorts">>,
          <<"Small Speculator Net", "non_reportable_longs", "non_reportable_shorts">>}
    ELSE {}

\* the Net columns a schema gives on the columns passed in
Derivable(schema) == {t \in NetSources(schema) : t[2] \in Columns(raw) /\ t[3] \in Columns(raw)}

\* x is a - b, and missing when either is
IsDifference(x, a, b) == IF isna(a) \/ isna(b) THEN isna(x) ELSE x = a - b

\* a schema is recognised when both fields of its primary category are there
Recognized ==
    IF {"producer_merchant_processor_user_longs",
        "producer_merchant_processor_user_shorts"} \subseteq Columns(raw) THEN "Disaggregated"
    ELSE IF {"commercial_longs", "commercial_shorts"} \subseteq Columns(raw) THEN "Legacy"
    ELSE "Unknown"

\* C7: under either recognised schema Large Speculator Net is
\* (speculator long - speculator short) - spreading when a spreading field is
\* present and long - short when it is absent, and every other Net column is its
\* category's long - short whether or not spreading is present, whatever its value.
C7_SpreadingOffLargeSpeculatorOnly ==
    pc = "net" =>
        \A t \in Derivable(Recognized) : \A i \in 1..NRows(data) :
            LET gross == data.val[t[2]][i] - data.val[t[3]][i]
                missing == isna(data.val[t[2]][i]) \/ isna(data.val[t[3]][i])
            IN  IF t[1] = "Large Speculator Net" /\ "spreading" \in Columns(raw)
                THEN IsDifference(data.val[t[1]][i],
                                  IF missing THEN NaN ELSE gross, data.val["spreading"][i])
                ELSE IsDifference(data.val[t[1]][i], data.val[t[2]][i], data.val[t[3]][i])

\* long 100, short 40, spreading 30 gives Large Speculator Net 30 while the
\* Commercial Net of the same record keeps its long - short
C7_Witness ==
    /\ pc = "net"
    /\ Recognized = "Legacy"
    /\ "spreading" \in Columns(raw)
    /\ "Large Speculator Net" \in Columns(data)
    /\ data.val["non_commercial_longs"][2] = 100
    /\ data.val["non_commercial_shorts"][2] = 40
    /\ data.val["spreading"][2] = 30
    /\ data.val["Large Speculator Net"][2] = 30
    /\ data.val["Commercial Net"][2] = 65

\* the derivation of one schema was applied and nothing else: the columns are
\* those passed in, unchanged, and after them the schema's Net columns whose two
\* fields are there, each long - short (Large Speculator Net less spreading)
DerivedAs(schema) ==
    /\ Columns(data) = Columns(raw) \cup {t[1] : t \in Derivable(schema)}
    /\ data.date = raw.date
    /\ \A c \in Columns(raw) : data.val[c] = raw.val[c]
    /\ \A t \in Derivable(schema) : \A i \in 1..NRows(data) :
          LET net == IF isna(raw.val[t[2]][i]) \/ isna(raw.val[t[3]][i]) THEN NaN
                     ELSE raw.val[t[2]][i] - raw.val[t[3]][i]
          IN  IF t[1] = "Large Speculator Net" /\ "spreading" \in Columns(raw)
              THEN IsDifference(data.val[t[1]][i], net, raw.val["spreading"][i])
              ELSE data.val[t[1]][i] = net

\* C8 as stated: the series is Disaggregated if
\* producer_merchant_processor_user_longs is present, else Legacy if
\* commercial_longs is present, otherwise no Net column is produced and the raw
\* columns pass through; exactly one schema's derivation is applied.
C8_SchemaByLongsField ==
    pc = "net" =>
        DerivedAs(IF "producer_merchant_processor_user_longs" \in Columns(raw)
                  THEN "Disaggregated"
                  ELSE IF "commercial_longs" \in Columns(raw) THEN "Legacy"
                  ELSE "Unknown")

\* C8 amended: the series is Disaggregated if both
\* producer_merchant_processor_user_longs and producer_merchant_processor_user_shorts
\* are present, else Legacy if both commercial_longs and commercial_shorts are
\* present, otherwise no Net column is produced and the raw columns pass through
\* unchanged; exactly one schema's derivation is applied.  (The records of these
\* series are dated in ascending order and miss values in the first record only,
\* so sorting and forward fill leave them as passed.)
C8_SchemaByBothFields ==
    pc = "net" => DerivedAs(Recognized)

\* producer_merchant_processor_user_longs without its shorts, next to both
\* commercial fields: the Legacy derivation is applied
C8_Witness ==
    /\ pc = "net"
    /\ "producer_merchant_processor_user_longs" \in Columns(raw)
    /\ "producer_merchant_processor_user_shorts" \notin Columns(raw)
    /\ {"commercial_longs", "commercial_shorts"} \subseteq Columns(raw)
    /\ "Small Speculator Net" \in Columns(data)
    /\ "Swap Dealer Net" \notin Columns(data)
    /\ data.val["Commercial Net"][2] = 65

----------------------------------------------------------------------------
(* C9: the annotations *)

\* the windowed records of column c that are to carry an annotation: those with a
\* value (byValue), or those with a change_pct
ShownRows(c, byValue) ==
    SelectSeq(plot_rows, LAMBDA i : IF byValue THEN ~isna(data.val[c][i])
                                    ELSE ~isna(data_change.change_pct[c][i]))

\* the number of annotations of the selected columns before the ci-th
RECURSIVE Offset(_, _)
Offset(ci, byValue) ==
    IF ci = 1 THEN 0
    ELSE Offset(ci - 1, byValue) + Len(ShownRows(selected_cols[ci - 1], byValue))

\* the list holds exactly one annotation for each record to be shown of each
\* selected column, column by column in date order, placed at the record's date
\* and value, and nothing else
AnnotatesEach(byValue) ==
    /\ Len(annotations) = Offset(Len(selected_cols) + 1, byValue)
    /\ \A ci \in 1..Len(selected_cols) :
          LET c == selected_cols[ci]
              shown == ShownRows(c, byValue)
              off == Offset(ci, byValue)
          IN  \A k \in 1..Len(shown) :
                /\ annotations[off + k].x = data.date[shown[k]]
                /\ annotations[off + k].y = data.val[c][shown[k]]
                /\ annotations[off + k].showarrow = FALSE
                /\ "visible" \notin DOMAIN annotations[off + k]

\* C9 as stated: with more than 90 periods in the window the list of annotations
\* is empty; with 90 or fewer it holds exactly one annotation for each (selected
\* column, windowed record) pair whose value is not missing, and none for the
\* pairs whose value is missing.
C9_EmptyAboveLimit ==
    pc \in {"annotated", "done"} =>
        IF num_periods > 90 THEN annotations = <<>> ELSE AnnotatesEach(TRUE)

\* C9 amended: with more than 90 periods in the window the list holds no
\* annotation of a record, only one hidden note (visible false, in paper
\* coordinates) that changes are shown for 90 or fewer periods; with 90 or fewer
\* it holds exactly one annotation for each (selected column, windowed record)
\* pair whose change_pct for that column is not missing, and none for the other
\* pairs: a record with a value gets none when it is the first of the series or
\* when it and the record before it are both 0.
C9_AnnotationPerChange ==
    pc \in {"annotated", "done"} =>
        IF num_periods > 90
        THEN /\ Len(annotations) = 1
             /\ "visible" \in DOMAIN annotations[1]
             /\ annotations[1].visible = FALSE
             /\ annotations[1].xref = "paper"
             /\ annotations[1].yref = "paper"
        ELSE AnnotatesEach(FALSE)

\* a window of exactly 90 periods over two selected columns, one of them 0
\* throughout: 90 annotations, none for the records of the column of zeros
C9_Witness ==
    /\ pc = "annotated"
    /\ num_periods = AnnotationLimit
    /\ Len(selected_cols) = 2
    /\ Len(annotations) = AnnotationLimit
    /\ \A k \in 1..Len(plot_rows) :
          /\ data.val["open_interest"][plot_rows[k]] = 0
          /\ isna(data_change.change_pct["open_interest"][plot_rows[k]])

----------------------------------------------------------------------------
(* C11: the ranks are monotonic in the value ranked *)

\* the column c with the value at record i raised by more
Raised(c, i, more) == [data.val[c] EXCEPT ![i] = @ + more]

\* a rank, in tenths, that is defined does not decrease from a to b
NotBelow(a, b) == ~isna(a) => (~isna(b) /\ a <= b)

\* the same of a year-to-date rank, a fraction
NotBelowFrac(f, g) == ~isnaFrac(f) => (~isnaFrac(g) /\ f[1] * g[2] <= g[1] * f[2])

\* C11: for every record and each of the windows (rolling 52, 104, 260 and year
\* to date) whose rank at the record is defined, replacing the value of the
\* record by a larger one, all other values as they are, never decreases the rank
\* computed at that record.
C11_RankMonotonicInValue ==
    pc = "enriched" =>
        LET ytd == YtdRows(data)
        IN  \A c \in NumericCols(data), i \in 1..NRows(data), more \in 1..MaxVal :
              ~isna(data.val[c][i]) =>
                /\ NotBelow(data_change.pct_1yr[c][i],
                            RollingAt(Raised(c, i, more), Window1yr, i))
                /\ NotBelow(data_change.pct_2yr[c][i],
                            RollingAt(Raised(c, i, more), Window2yr, i))
                /\ NotBelow(data_change.pct_5yr[c][i],
                            RollingAt(Raised(c, i, more), Window5yr, i))
                /\ NotBelowFrac(data_change.pct_ytd[c][i],
                                YtdRank(Raised(c, i, more), ytd, i))

\* a record whose 5-year and year-to-date ranks both rise when its value does
C11_Witness ==
    /\ pc = "enriched"
    /\ \E c \in NumericCols(data), i \in 1..NRows(data), more \in 1..MaxVal :
          /\ IsFinite(data_change.pct_5yr[c][i])
          /\ data_change.pct_5yr[c][i] < RollingAt(Raised(c, i, more), Window5yr, i)
          /\ ~isnaFrac(data_change.pct_ytd[c][i])
          /\ ~NotBelowFrac(YtdRank(Raised(c, i, more), YtdRows(data), i),
                           data_change.pct_ytd[c][i])

----------------------------------------------------------------------------
(* C12: the date filter *)

Windowed == pc \in {"windowed", "hovered", "annotated", "done"}

\* the records of the full series dated in the selected range
InRange == {i \in 1..NRows(data) :
               selected_start_date <= data.date[i] /\ data.date[i] <= selected_end_date}

DerivedFields == {"change", "change_pct", "pct_ytd", "pct_1yr", "pct_2yr", "pct_5yr"}

\* C12: for any selected range the windowed view is exactly the records with
\* startDate <= date <= endDate, both ends inclusive, in date order; periodCount is
\* their number; and every change and rank field of a retained record has the
\* value it has in the full series, also when periodCount is above 90.
C12_WindowIsPureFilter ==
    Windowed =>
        LET kept == InRange
            first == CHOOSE i \in kept : i - 1 \notin kept
        IN  /\ num_periods = Cardinality(kept)
            /\ Len(plot_data_change.date) = num_periods
            /\ \A k \in 1..num_periods :
                  /\ first + k - 1 \in kept
                  /\ plot_data_change.date[k] = data.date[first + k - 1]
                  /\ \A c \in NumericCols(data) :
                        /\ plot_data_change.val[c][k] = data.val[c][first + k - 1]
                        /\ \A f \in DerivedFields :
                              plot_data_change[f][c][k] = data_change[f][c][first + k - 1]

\* a window of 91 periods that starts after the first record: its first record
\* keeps the change from the record before the window, and its last record a
\* 5-year rank no window of 91 could give
C12_Witness ==
    /\ Windowed
    /\ num_periods = AnnotationLimit + 1
    /\ plot_data_change.date[1] > data.date[1]
    /\ ~isna(plot_data_change.change["spreading"][1])
    /\ IsFinite(plot_data_change.pct_5yr["spreading"][num_periods])

----------------------------------------------------------------------------
(* C13: forward fill *)

\* the records passed in that hold a value of column c and are dated at or before t
ValuedUpTo(c, t) ==
    {j \in 1..NRows(raw) : raw.date[j] <= t /\ ~isna(raw.val[c][j])}

\* C13: after the fill, and before any derivation, the value of a column at record
\* i is the column's most recent non-missing raw value at or before i in
\* ascending date order, and it is missing only if every raw value of the column
\* at or before i is missing; no value of another column or of a later record
\* is used.
C13_ForwardFilledPerColumn ==
    pc = "filled" =>
        /\ NRows(data) = NRows(raw)
        /\ \A c \in Columns(raw), i \in 1..NRows(data) :
              LET prior == ValuedUpTo(c, data.date[i])
              IN  IF prior = {} THEN isna(data.val[c][i])
                  ELSE LET last == CHOOSE j \in prior :
                                      \A k \in prior : raw.date[k] <= raw.date[j]
                       IN  data.val[c][i] = raw.val[c][last]

\* a series passed in descending date order with a gap between two different
\* values: the gap takes the value dated before it
C13_Witness ==
    /\ pc = "filled"
    /\ NRows(raw) = 3
    /\ raw.date[1] > raw.date[3]
    /\ isna(raw.val["open_interest"][2])
    /\ ~isna(raw.val["open_interest"][1])
    /\ ~isna(raw.val["open_interest"][3])
    /\ raw.val["open_interest"][1] # raw.val["open_interest"][3]
    /\ data.val["open_interest"][2] = raw.val["open_interest"][3]

----------------------------------------------------------------------------
(* C14: dates out of order or repeated *)

StrictlyIncreasing(dates) == \A i \in 2..Len(dates) : dates[i - 1] < dates[i]

Deriving == pc \in {"start", "sorted", "filled", "net"}

\* C14 as stated: a series whose dates are not strictly increasing (out of order
\* or repeated) is refused, no enriched series is produced from it; missing
\* values and short history never fail and only leave fields undefined.
C14_RefusesUnorderedDates ==
    /\ pc = "enriched" => StrictlyIncreasing(raw.date)
    /\ (Deriving /\ StrictlyIncreasing(raw.date)) => ENABLED Next

\* C14 amended: the derivation never fails.  A series whose dates are out of order
\* is sorted by date and enriched; records of a repeated date are all kept, next
\* to each other in no guaranteed order; every record passed in is a record of
\* the enriched series, with its own date.  Missing values and short history
\* only leave fields undefined: every derived field holds one entry for each
\* record and the rolling ranks of a series shorter than their window are all
\* undefined.
C14_SortsAndKeepsEveryRecord ==
    /\ Deriving => ENABLED Next
    /\ pc = "enriched" =>
          /\ NRows(data) = NRows(raw)
          /\ \A i \in 2..NRows(data) : data.date[i - 1] <= data.date[i]
          /\ \A j \in 1..NRows(raw) : \E i \in 1..NRows(data) :
                /\ data.val["market_participation"][i] = raw.val["market_participation"][j]
                /\ data.date[i] = raw.date[j]
          /\ \A c \in NumericCols(data) :
                /\ \A f \in DerivedFields : Len(data_change[f][c]) = NRows(raw)
                /\ \A i \in 1..NRows(data) :
                      /\ NRows(data) < Window1yr => isna(data_change.pct_1yr[c][i])
                      /\ NRows(data) < Window2yr => isna(data_change.pct_2yr[c][i])
                      /\ NRows(data) < Window5yr => isna(data_change.pct_5yr[c][i])

\* three records passed with the later date first and the earlier date twice:
\* enriched, the two records of the earlier date first, the second of them ahead
C14_Witness ==
    /\ pc = "enriched"
    /\ NRows(raw) = 3
    /\ raw.date[1] > raw.date[2]
    /\ raw.date[2] = raw.date[3]
    /\ data.val["market_participation"] = <<3, 2, 1>>
    /\ isna(raw.val["open_interest"][2])
    /\ data_change.change["open_interest"][3] = 0 - 2

----------------------------------------------------------------------------
(* C15: the default date range *)

Ranged == pc \in {"ranged", "windowed", "hovered", "annotated", "done"}

DefaultSelected ==
    selected_start_date = default_start_date /\ selected_end_date = default_end_date

\* C15: for a series of n records with unique dates the default range runs from
\* the min(89, n)-th most recent date to the latest date; the default view holds
\* exactly min(89, n) records, so periodCount is not above 90 under the default
\* selection and the annotations are not suppressed by default.
C15_DefaultShowsLast89 ==
    LET n == NRows(data)
        m == IF n < 89 THEN n ELSE 89
    IN  /\ Ranged => /\ default_start_date = data.date[n + 1 - m]
                     /\ default_end_date = data.date[n]
        /\ (Windowed /\ DefaultSelected) => (num_periods = m /\ num_periods <= 90)
        /\ (pc \in {"annotated", "done"} /\ DefaultSelected) =>
              \A k \in 1..Len(annotations) : "visible" \notin DOMAIN annotations[k]

\* a series of 90 records under the default selection: 89 periods, the first
\* record left out, and an annotation for each record of a selected column
C15_Witness ==
    /\ pc = "annotated"
    /\ NRows(data) = 90
    /\ DefaultSelected
    /\ num_periods = 89
    /\ plot_data_change.date[1] = data.date[2]
    /\ Len(selected_cols) = 1
    /\ Len(annotations) = 89

====
